---- MODULE Spec2Model ----
(***************************************************************************)
(* Model of demo-project/src/hello.c: a CPython extension module "demo"    *)
(* whose single method "world" returns a greeting selected by the          *)
(* preprocessor macros HELLO_MACRO and DYNAMIC_MACRO.                      *)
(*                                                                         *)
(* The build configuration is the set of macros defined when hello.c is    *)
(* compiled.  At run time a host loads the module (PyInit_demo) and any    *)
(* number of caller threads look a name up in the module and call it with  *)
(* a tuple of positional arguments and a dict of keyword arguments.  The   *)
(* call goes through the METH_* calling convention recorded in the method  *)
(* table and then through the body of hello_world.                         *)
(*                                                                         *)
(* The allocation inside PyUnicode_FromString may fail: the call then      *)
(* returns NULL with MemoryError set, and hello_world passes that on.  A   *)
(* PyModule_Create that fails leaves the module unloaded, which is the     *)
(* state before PyInit_demo.                                               *)
(***************************************************************************)
EXTENDS Integers, Sequences, FiniteSets, TLC

\* ---------------------------------------------------------------- bounds
NThreads == 2
MaxArgs == 1
MaxKwargs == 1
MaxCalls == 3

Threads == 1..NThreads
ArgValues == {"x"}
ArgTuples == UNION {[1..n -> ArgValues] : n \in 0..MaxArgs}
KwNames == {"kw" \o ToString(i) : i \in 1..MaxKwargs}
CallNames == {"world", "hello_world"}
Addresses == {"obj" \o ToString(i) : i \in 1..NThreads}

\* ------------------------------------------------------- the source text
NULL == "NULL"

Macros == {"HELLO_MACRO", "DYNAMIC_MACRO"}

\* The #if / #elif / #else chain of hello_world: each branch with the macros
\* its condition needs defined (none for #else) and the literal it returns.
Branches ==
    << [cond |-> {"HELLO_MACRO", "DYNAMIC_MACRO"},
        lit  |-> "Hello from Zig CC with Macro and Dynamic Macro!"],
       [cond |-> {"HELLO_MACRO"},
        lit  |-> "Hello from Zig CC with Macro!"],
       [cond |-> {},
        lit  |-> "Hello from Zig CC!"] >>

\* Mutant: three independent #if blocks instead of one #if/#elif/#else chain.
Preprocess_independent(defs) ==
    {i \in DOMAIN Branches : Branches[i].cond \subseteq defs}

\* Mutant: the #elif defined(HELLO_MACRO) branch tested first.
Preprocess_elif_first(defs) ==
    IF "HELLO_MACRO" \in defs THEN {2} ELSE {3}

\* Mutant: the first condition written with || instead of &&.
Preprocess_or(defs) ==
    IF defs # {} THEN {1} ELSE {3}

\* Mutant: the #elif testing DYNAMIC_MACRO instead of HELLO_MACRO.
Preprocess_elif_dynamic(defs) ==
    IF Macros \subseteq defs THEN {1}
    ELSE IF "DYNAMIC_MACRO" \in defs THEN {2} ELSE {3}

\* The branches the preprocessor keeps: a branch is kept when its condition
\* holds and no earlier branch of the chain was taken.
Preprocess(defs) ==
    {i \in DOMAIN Branches :
        /\ Branches[i].cond \subseteq defs
        /\ \A j \in 1..(i - 1) : ~(Branches[j].cond \subseteq defs)}

\* The return statements compiled into hello_world.
CompiledReturns(defs) == {Branches[i].lit : i \in Preprocess(defs)}

\* The literal of the first return statement of the compiled body (the one
\* that executes).
ReturnLiteral(defs) ==
    LET kept == Preprocess(defs)
        first == CHOOSE i \in kept : \A j \in kept : i <= j
    IN Branches[first].lit

\* Mutant: the function registered under a second name as well.
HelloMethods_alias ==
    << [ml_name |-> "world", ml_meth |-> "hello_world",
        ml_flags |-> {"METH_VARARGS"}, ml_doc |-> "Return a greeting."],
       [ml_name |-> "hello_world", ml_meth |-> "hello_world",
        ml_flags |-> {"METH_VARARGS"}, ml_doc |-> "Return a greeting."],
       [ml_name |-> NULL, ml_meth |-> NULL, ml_flags |-> {}, ml_doc |-> NULL] >>

\* The method table; ml_flags is the set of METH_* bits (0 is the empty set).
HelloMethods ==
    << [ml_name |-> "world", ml_meth |-> "hello_world",
        ml_flags |-> {"METH_VARARGS"}, ml_doc |-> "Return a greeting."],
       [ml_name |-> NULL, ml_meth |-> NULL, ml_flags |-> {}, ml_doc |-> NULL] >>

\* Mutant: the module definition without its method table.
hellomodule_nomethods ==
    [m_name |-> "demo", m_doc |-> NULL, m_size |-> -1,
     m_methods |-> << [ml_name |-> NULL, ml_meth |-> NULL,
                       ml_flags |-> {}, ml_doc |-> NULL] >>]

hellomodule ==
    [m_name |-> "demo", m_doc |-> NULL, m_size |-> -1,
     m_methods |-> HelloMethods]


\* ------------------------------------------------------------ the state
VARIABLES
    defined,      \* the macros defined when hello.c was compiled
    sys_modules,  \* the modules the host has loaded, by name
    heap,         \* the live str objects, by address
    pc,           \* per caller: idle, call, body, returned, raised
    frame,        \* per caller: the name looked up, the args tuple, the kwargs
    result,       \* per caller: the object the call returned, or NULL
    exc,          \* per caller: the exception the call raised, or NULL
    touched,      \* per caller: the objects its invocation read or wrote
    returned      \* history: the strings hello_world has returned, in order

vars == <<defined, sys_modules, heap, pc, frame, result, exc, touched, returned>>

NoFrame == [name |-> NULL, args |-> <<>>, kwargs |-> {}]

Init ==
    /\ defined \in SUBSET Macros
    /\ sys_modules = <<>>
    /\ heap = <<>>
    /\ pc = [t \in Threads |-> "idle"]
    /\ frame = [t \in Threads |-> NoFrame]
    /\ result = [t \in Threads |-> NULL]
    /\ exc = [t \in Threads |-> NULL]
    /\ touched = [t \in Threads |-> {}]
    /\ returned = <<>>

\* ------------------------------------------------------ module loading
\* The entries of a method table up to its {NULL, NULL, 0, NULL} sentinel.
RECURSIVE MethodDefs(_)
MethodDefs(tbl) ==
    IF Head(tbl).ml_name = NULL THEN <<>>
    ELSE <<Head(tbl)>> \o MethodDefs(Tail(tbl))

\* PyModule_Create: a module object named m_name, with m_doc as its __doc__
\* and one builtin function per entry of m_methods.
PyModule_Create(def) ==
    LET defs == MethodDefs(def.m_methods)
        names == {defs[i].ml_name : i \in DOMAIN defs}
    IN [name |-> def.m_name,
        doc |-> def.m_doc,
        methods |-> [n \in names |->
                        defs[CHOOSE i \in DOMAIN defs :
                                /\ defs[i].ml_name = n
                                /\ \A j \in DOMAIN defs :
                                      defs[j].ml_name = n => j <= i]]]

Loaded == "demo" \in DOMAIN sys_modules

PyInit_demo ==
    /\ ~Loaded
    /\ sys_modules' = sys_modules @@ ("demo" :> PyModule_Create(hellomodule))
    /\ UNCHANGED <<defined, heap, pc, frame, result, exc, touched, returned>>

\* ------------------------------------------------------------ a caller
InFlight == {t \in Threads : pc[t] \in {"call", "body"}}

\* A caller evaluates demo.<name>(*args, **kwargs): the attribute lookup comes
\* first, and the arguments are only bound when it found a callable.
Call(t, name, args, kwargs) ==
    /\ pc[t] = "idle"
    /\ Len(returned) + Cardinality(InFlight) < MaxCalls
    /\ IF ~Loaded
       THEN /\ pc' = [pc EXCEPT ![t] = "raised"]
            /\ exc' = [exc EXCEPT ![t] = "ModuleNotFoundError"]
            /\ frame' = [frame EXCEPT ![t] = [NoFrame EXCEPT !.name = name]]
       ELSE IF name \notin DOMAIN sys_modules["demo"].methods
       THEN /\ pc' = [pc EXCEPT ![t] = "raised"]
            /\ exc' = [exc EXCEPT ![t] = "AttributeError"]
            /\ frame' = [frame EXCEPT ![t] = [NoFrame EXCEPT !.name = name]]
       ELSE /\ pc' = [pc EXCEPT ![t] = "call"]
            /\ exc' = exc
            /\ frame' = [frame EXCEPT ![t] =
                            [name |-> name, args |-> args, kwargs |-> kwargs]]
    /\ UNCHANGED <<defined, sys_modules, heap, result, touched, returned>>

\* What the METH_* calling convention of a method lets through to the C
\* function: METH_VARARGS alone takes no keyword arguments, METH_NOARGS takes
\* no arguments at all.
Accepts(flags, args, kwargs) ==
    IF "METH_KEYWORDS" \in flags THEN TRUE
    ELSE IF "METH_NOARGS" \in flags THEN kwargs = {} /\ Len(args) = 0
    ELSE kwargs = {}

\* The runtime applies the calling convention of the found method.
cfunction_call(t) ==
    /\ pc[t] = "call"
    /\ LET m == sys_modules["demo"].methods[frame[t].name]
       IN IF Accepts(m.ml_flags, frame[t].args, frame[t].kwargs)
          THEN /\ pc' = [pc EXCEPT ![t] = "body"]
               /\ exc' = exc
          ELSE /\ pc' = [pc EXCEPT ![t] = "raised"]
               /\ exc' = [exc EXCEPT ![t] = "TypeError"]
    /\ UNCHANGED <<defined, sys_modules, heap, frame, result, touched, returned>>

\* ---------------------------------------------------------- hello_world
FreeAddresses == Addresses \ DOMAIN heap

\* Mutant: an interned string, one shared object per value.
PyUnicode_FromString_interned(u, mem) ==
    IF ~mem THEN [addr |-> NULL, str |-> NULL]
    ELSE IF \E a \in DOMAIN heap : heap[a] = u
    THEN [addr |-> CHOOSE a \in DOMAIN heap : heap[a] = u, str |-> u]
    ELSE [addr |-> CHOOSE a \in FreeAddresses : TRUE, str |-> u]

\* PyUnicode_FromString: a new str object holding the (ASCII) C string u, or
\* NULL when the allocator has no memory for it (mem is FALSE).
PyUnicode_FromString(u, mem) ==
    IF mem THEN [addr |-> CHOOSE a \in FreeAddresses : TRUE, str |-> u]
    ELSE [addr |-> NULL, str |-> NULL]

\* Mutant: a greeting that is different after the first call.
hello_world_drift(self, args, mem) ==
    PyUnicode_FromString(IF Len(returned) = 0 THEN ReturnLiteral(defined)
                         ELSE "Hello again from Zig CC!", mem)

\* The C function: self and args are not used, and the result of
\* PyUnicode_FromString is returned as it is, NULL included.
hello_world(self, args, mem) ==
    PyUnicode_FromString(ReturnLiteral(defined), mem)

\* Mutant: the body also stores the greeting as the module's __doc__.
Invoke_cached(t, mem) ==
    /\ pc[t] = "body"
    /\ LET ob == hello_world("demo", frame[t].args, mem)
       IN IF ob.addr = NULL
          THEN /\ pc' = [pc EXCEPT ![t] = "raised"]
               /\ exc' = [exc EXCEPT ![t] = "MemoryError"]
               /\ UNCHANGED <<heap, result, touched, returned, sys_modules>>
          ELSE /\ heap' = heap @@ (ob.addr :> ob.str)
               /\ result' = [result EXCEPT ![t] = ob.addr]
               /\ touched' = [touched EXCEPT ![t] = {ob.addr}]
               /\ returned' = Append(returned, ob.str)
               /\ sys_modules' = [sys_modules EXCEPT !["demo"].doc = ob.str]
               /\ pc' = [pc EXCEPT ![t] = "returned"]
               /\ exc' = exc
    /\ UNCHANGED <<defined, frame>>

\* The runtime runs the body of the C function and hands its outcome to the
\* caller: the new object, or the pending MemoryError when it returned NULL.
Invoke(t, mem) ==
    /\ pc[t] = "body"
    /\ LET ob == hello_world("demo", frame[t].args, mem)
       IN IF ob.addr = NULL
          THEN /\ pc' = [pc EXCEPT ![t] = "raised"]
               /\ exc' = [exc EXCEPT ![t] = "MemoryError"]
               /\ UNCHANGED <<heap, result, touched, returned>>
          ELSE /\ heap' = heap @@ (ob.addr :> ob.str)
               /\ result' = [result EXCEPT ![t] = ob.addr]
               /\ touched' = [touched EXCEPT ![t] = {ob.addr}]
               /\ returned' = Append(returned, ob.str)
               /\ pc' = [pc EXCEPT ![t] = "returned"]
               /\ exc' = exc
    /\ UNCHANGED <<defined, sys_modules, frame>>

\* The caller is done with the outcome of its call and drops it.
Release(t) ==
    /\ pc[t] \in {"returned", "raised"}
    /\ pc' = [pc EXCEPT ![t] = "idle"]
    /\ frame' = [frame EXCEPT ![t] = NoFrame]
    /\ result' = [result EXCEPT ![t] = NULL]
    /\ exc' = [exc EXCEPT ![t] = NULL]
    /\ touched' = [touched EXCEPT ![t] = {}]
    /\ LET held == {result[u] : u \in Threads \ {t}}
           dead == IF result[t] \in held THEN {} ELSE {result[t]}
       IN heap' = [a \in DOMAIN heap \ dead |-> heap[a]]
    /\ UNCHANGED <<defined, sys_modules, returned>>

CallStep ==
    \E t \in Threads, name \in CallNames, args \in ArgTuples, kwargs \in SUBSET KwNames :
        Call(t, name, args, kwargs)
DispatchStep == \E t \in Threads : cfunction_call(t)
InvokeStep == \E t \in Threads, mem \in BOOLEAN : Invoke(t, mem)
ReleaseStep == \E t \in Threads : Release(t)

Next ==
    \/ PyInit_demo
    \/ CallStep
    \/ DispatchStep
    \/ InvokeStep
    \/ ReleaseStep

Spec == Init /\ [][Next]_vars

\* ------------------------------------------------------------ the claims
\* The table of the specification: the greeting of a build configuration.
SpecGreeting(defs) ==
    IF "HELLO_MACRO" \in defs
    THEN IF "DYNAMIC_MACRO" \in defs
         THEN "Hello from Zig CC with Macro and Dynamic Macro!"
         ELSE "Hello from Zig CC with Macro!"
    ELSE "Hello from Zig CC!"

ThreeStrings ==
    {"Hello from Zig CC with Macro and Dynamic Macro!",
     "Hello from Zig CC with Macro!",
     "Hello from Zig CC!"}

\* The string a caller holds after its call returned.
Value(t) == heap[result[t]]

\* Every call that has returned so far, still held or not, returned s.
AllReturned(s) ==
    /\ \A t \in Threads : pc[t] = "returned" =>
          result[t] \in DOMAIN heap /\ Value(t) = s
    /\ \A i \in DOMAIN returned : returned[i] = s

\* An invocation of world() on the loaded module that has come to its end.
Finished(t) ==
    /\ frame[t].name = "world"
    /\ \/ pc[t] = "returned"
       \/ pc[t] = "raised" /\ exc[t] \notin {"ModuleNotFoundError", "AttributeError"}

\* The invocation ended with a non-empty str object and no exception.
Succeeded(t) ==
    /\ pc[t] = "returned"
    /\ exc[t] = NULL
    /\ result[t] # NULL
    /\ result[t] \in DOMAIN heap
    /\ Len(Value(t)) > 0

\* C1: with HELLO_MACRO and DYNAMIC_MACRO both defined, every invocation of
\* world() returns "Hello from Zig CC with Macro and Dynamic Macro!".
C1_BothFlags ==
    defined = {"HELLO_MACRO", "DYNAMIC_MACRO"} =>
        AllReturned("Hello from Zig CC with Macro and Dynamic Macro!")

C1_Witness ==
    /\ defined = {"HELLO_MACRO", "DYNAMIC_MACRO"}
    /\ \E t \in Threads : pc[t] = "returned"

\* C2: with HELLO_MACRO defined and DYNAMIC_MACRO not, every invocation of
\* world() returns "Hello from Zig CC with Macro!".
C2_OnlyHelloMacro ==
    defined = {"HELLO_MACRO"} => AllReturned("Hello from Zig CC with Macro!")

C2_Witness ==
    /\ defined = {"HELLO_MACRO"}
    /\ \E t \in Threads : pc[t] = "returned"

\* C3: with HELLO_MACRO not defined, every invocation of world() returns
\* "Hello from Zig CC!", whether DYNAMIC_MACRO is defined or not.
C3_NoHelloMacro ==
    "HELLO_MACRO" \notin defined => AllReturned("Hello from Zig CC!")

C3_Witness ==
    /\ defined = {"DYNAMIC_MACRO"}
    /\ \E t \in Threads : pc[t] = "returned"

\* C4: every invocation of world(), whatever its arguments, ends with a
\* non-empty str and never with an exception or a NULL result.
C4_NeverFails ==
    \A t \in Threads : Finished(t) => Succeeded(t)

\* C5: any two invocations of world() that differ only in their arguments
\* are both accepted and return the same string.
C5_ArgumentsIgnored ==
    \A t, u \in Threads : Finished(t) /\ Finished(u) =>
        Succeeded(t) /\ Succeeded(u) /\ Value(t) = Value(u)

\* C6: every invocation returns the string the first invocation returned, and
\* the set of macros the build was compiled with never changes at run time.
C6_Idempotent ==
    /\ [](/\ \A i \in DOMAIN returned : returned[i] = returned[1]
          /\ \A t \in Threads : pc[t] = "returned" => Value(t) = returned[1])
    /\ [][defined' = defined]_vars

C6_Witness ==
    /\ Len(returned) >= 2
    /\ \E t \in Threads : pc[t] = "returned"

\* C7: once PyInit_demo has returned the module, "world" is found in it and a
\* call of it reaches the registered function with no step in between (the
\* lookup never fails); before the module is loaded no call of world gets
\* anywhere.
C7_DiscoverableAfterLoad ==
    /\ [](Loaded => "world" \in DOMAIN sys_modules["demo"].methods)
    /\ [](\A t \in Threads : pc[t] \in {"call", "body", "returned"} => Loaded)
    /\ [](\A t \in Threads : frame[t].name = "world" => exc[t] # "AttributeError")
    /\ [][\A t \in Threads :
            pc[t] = "idle" /\ pc'[t] # "idle" /\ frame'[t].name = "world" =>
                IF Loaded THEN pc'[t] = "call"
                ELSE pc'[t] = "raised" /\ exc'[t] = "ModuleNotFoundError"]_vars

C7_Witness ==
    /\ Loaded
    /\ \E t \in Threads : frame[t].name = "world" /\ Succeeded(t)
    /\ \E u \in Threads : frame[u].name = "world" /\ exc[u] = "ModuleNotFoundError"

\* C8: under every interleaving of concurrent invocations each caller gets an
\* object of its own holding the build-selected string, and an invocation
\* touches no object another invocation touches nor changes another caller's
\* state.
C8_Concurrent ==
    /\ [](\A t \in Threads : pc[t] = "returned" =>
            /\ result[t] \in DOMAIN heap
            /\ Value(t) = SpecGreeting(defined)
            /\ \A u \in Threads \ {t} :
                  result[u] # result[t] /\ touched[u] \cap touched[t] = {})
    /\ [][\A t \in Threads : pc[t] = "body" /\ pc'[t] = "returned" =>
            /\ result'[t] \notin DOMAIN heap
            /\ \A a \in DOMAIN heap : a \in DOMAIN heap' /\ heap'[a] = heap[a]
            /\ \A u \in Threads \ {t} :
                  /\ pc'[u] = pc[u] /\ frame'[u] = frame[u]
                  /\ result'[u] = result[u] /\ exc'[u] = exc[u]
                  /\ touched'[u] = touched[u]]_vars

C8_Witness ==
    \E t, u \in Threads : t # u /\ pc[t] = "returned" /\ pc[u] = "returned"

\* C9: running the body of world() changes neither the loaded module nor the
\* build selection nor the caller's arguments nor any object that existed
\* before; it only hands its outcome to its caller, and a value it returns
\* comes with no exception set.
C9_NoSideEffects ==
    [][\A t \in Threads : pc[t] = "body" /\ pc'[t] # "body" =>
          /\ sys_modules' = sys_modules
          /\ defined' = defined
          /\ frame'[t] = frame[t]
          /\ pc'[t] = "returned" => exc'[t] = exc[t]
          /\ \A a \in DOMAIN heap : a \in DOMAIN heap' /\ heap'[a] = heap[a]
          /\ DOMAIN heap' \ DOMAIN heap \subseteq {result'[t]}]_vars

C9_Witness ==
    \E t, u \in Threads :
        /\ t # u
        /\ pc[t] = "returned" /\ Len(frame[t].args) > 0
        /\ pc[u] = "returned"

\* C10: the loaded module has exactly one method, named "world", and in every
\* build configuration exactly one return statement, of one of the three
\* strings, is compiled into it.
C10_OneOperationOneString ==
    /\ Loaded => DOMAIN sys_modules["demo"].methods = {"world"}
    /\ Cardinality(CompiledReturns(defined)) = 1
    /\ CompiledReturns(defined) \subseteq ThreeStrings
    /\ \A t \in Threads : pc[t] = "returned" => Value(t) \in CompiledReturns(defined)
    /\ \A t \in Threads : exc[t] = "AttributeError" => frame[t].name # "world"

C10_Witness ==
    /\ Loaded
    /\ defined = {"DYNAMIC_MACRO"}
    /\ \E t \in Threads : exc[t] = "AttributeError"
    /\ \E t \in Threads : pc[t] = "returned"

====
